---- MODULE Spec2Model ----
(***************************************************************************)
(* Smart lamp controller (ESP8266 relay + auto-off timer).                 *)
(*                                                                         *)
(* The two firmware variants, mcu_smartlmp.ino ("main") and the optimized  *)
(* sketch ("optimized"), run side by side on the same requests, the same   *)
(* external relay changes and the same passage of time.  Every program     *)
(* variable is a function of the variant.                                  *)
(*                                                                         *)
(* unsigned long is 32 bits on the ESP8266.  A 32-bit word is the pair     *)
(* <<hi, lo>> of its 16-bit halves, so that no intermediate value leaves   *)
(* the range of the model checker's integers; long values (signed 32 bit)  *)
(* are plain integers.                                                     *)
(***************************************************************************)
EXTENDS Integers, Sequences, FiniteSets, TLC

Variants == {"main", "optimized"}

(***************************************************************************)
(* 32-bit unsigned arithmetic on <<hi, lo>>.                               *)
(***************************************************************************)
Radix == 2^16

\* the word of a natural number below 2^31
Word(n) == <<n \div Radix, n % Radix>>

\* a + b modulo 2^32
WAdd(a, b) ==
  LET lo == a[2] + b[2]
      hi == a[1] + b[1] + (lo \div Radix)
  IN  <<hi % Radix, lo % Radix>>

\* a - b modulo 2^32 (unsigned long subtraction)
WSub(a, b) ==
  LET lo == a[2] - b[2]
      borrow == IF lo < 0 THEN 1 ELSE 0
      hi == a[1] - b[1] - borrow
  IN  <<(hi + Radix) % Radix, (lo + Radix) % Radix>>

\* a >= b on unsigned long
WGe(a, b) == a[1] > b[1] \/ (a[1] = b[1] /\ a[2] >= b[2])

\* (long)a : the two's-complement reading of the 32 bits
ToLong(a) ==
  IF a[1] >= Radix \div 2 THEN (a[1] - Radix) * Radix + a[2]
                          ELSE a[1] * Radix + a[2]

LONG_MAX == 2147483647

\* x / d in C (truncation towards zero), d > 0
CDiv(x, d) == IF x >= 0 \/ x % d = 0 THEN x \div d ELSE (x \div d) + 1

\* (unsigned long)x for a long x
FromLong(x) ==
  IF x >= 0 THEN Word(x) ELSE <<(x \div Radix) + Radix, x % Radix>>

\* a / d and a % d on unsigned long, for a divisor 0 < d < 2^15
WDiv(a, d) ==
  LET mid == (a[1] % d) * Radix + a[2]
  IN  <<a[1] \div d, mid \div d>>

WMod(a, d) == ((a[1] % d) * Radix + a[2]) % d

(***************************************************************************)
(* Program constants.                                                      *)
(***************************************************************************)
MsPerMinute == 60000
MaxMinutes == 720
MsPerSecond == 1000
SAFETY_REBOOT_INTERVAL == Word(12 * 60 * 60 * 1000)
SAFETY_CHECK_INTERVAL == Word(30 * 60 * 1000)

LOW == "LOW"
HIGH == "HIGH"

(***************************************************************************)
(* Bounds of the model and the inputs drawn by the environment.            *)
(***************************************************************************)
\* number of times the environment lets time pass
MaxAdvances == 2
\* millis() at the end of setup(): the 1000 ms delay plus the WiFi wait
BootMillis == 2000

\* amounts of time that pass between two steps: 1 ms, a minute less 1 ms,
\* twelve hours less 1 ms, and 2^31 ms
ClockSteps ==
  { Word(1), Word(MsPerMinute - 1), WSub(SAFETY_REBOOT_INTERVAL, Word(1)),
    <<Radix \div 2, 0>> }

\* values of the "minutes" query argument, as character sequences
MinutesArgs ==
  { <<"0">>, <<"1">>, <<"3", "0">>, <<"7", "2", "0">>, <<"7", "2", "1">>,
    <<"-", "5">>, <<"a", "b", "c">> }

VARIABLES
  millis,           \* [variant -> word]  the millisecond counter
  relayPin,         \* [variant -> LOW | HIGH]  level of GPIO5 (active-low)
  relayState,       \* [variant -> BOOLEAN]  legacy variable
  currentTimeout,   \* [variant -> Nat]  timer duration in minutes
  timeoutActive,    \* [variant -> BOOLEAN]
  timeoutStart,     \* [variant -> word]
  moduleStartTime,  \* [variant -> word]
  lastSafetyCheck,  \* [variant -> word]  read and written by the optimized variant only
  pc,               \* position in loop(): "handleClient" or "checks"
  request,          \* the request served by the last step, if it was a handler
  response,         \* [variant -> the response that handler sent]
  events,           \* [variant -> what the last step did: branches taken, relay writes]
  advances,         \* number of times the clock was advanced
  script            \* the run of lamp_control.sh, see below

vars == <<millis, relayPin, relayState, currentTimeout, timeoutActive, timeoutStart,
          moduleStartTime, lastSafetyCheck, pc, request, response, events, advances,
          script>>

(***************************************************************************)
(* The program state of one variant, as a record; the handlers and the     *)
(* loop are functions from such a record to the record after them.  ev     *)
(* collects what the step did: "setLamp" for a call of setLamp, "loop" for *)
(* the checks of loop() and the branches they took ("expiry", "override",  *)
(* "restart").                                                             *)
(***************************************************************************)
St(v) ==
  [ millis |-> millis[v], relayPin |-> relayPin[v], relayState |-> relayState[v],
    currentTimeout |-> currentTimeout[v], timeoutActive |-> timeoutActive[v],
    timeoutStart |-> timeoutStart[v], moduleStartTime |-> moduleStartTime[v],
    lastSafetyCheck |-> lastSafetyCheck[v], ev |-> {} ]

\* the variables after a step that leaves each variant v in state f[v]
Apply(f) ==
  /\ millis' = [v \in Variants |-> f[v].millis]
  /\ relayPin' = [v \in Variants |-> f[v].relayPin]
  /\ relayState' = [v \in Variants |-> f[v].relayState]
  /\ currentTimeout' = [v \in Variants |-> f[v].currentTimeout]
  /\ timeoutActive' = [v \in Variants |-> f[v].timeoutActive]
  /\ timeoutStart' = [v \in Variants |-> f[v].timeoutStart]
  /\ moduleStartTime' = [v \in Variants |-> f[v].moduleStartTime]
  /\ lastSafetyCheck' = [v \in Variants |-> f[v].lastSafetyCheck]
  /\ events' = [v \in Variants |-> f[v].ev]

\* mutant of isLampOn: the lamp state is taken from the legacy variable
isLampOnCached(s) == s.relayState

\* isLampOn(): the live pin level; the relay is active-low
isLampOn(s) == s.relayPin = LOW

\* setLamp(on): digitalWrite(relayPin, on ? LOW : HIGH)
setLamp(s, on) ==
  [s EXCEPT !.relayPin = IF on THEN LOW ELSE HIGH, !.ev = @ \cup {"setLamp"}]

\* mutant of Budget: the duration taken as seconds
BudgetInSeconds(s) == Word(s.currentTimeout * MsPerSecond)

\* currentTimeout * 60000UL (currentTimeout is at most 720, see handleTimeout)
Budget(s) == Word(s.currentTimeout * MsPerMinute)

\* millis() - timeoutStart
Elapsed(s) == WSub(s.millis, s.timeoutStart)

(***************************************************************************)
(* String::toInt() is atol(): optional blanks, an optional sign, then the  *)
(* longest run of digits; 0 when there is none.                            *)
(***************************************************************************)
DigitChars == {"0", "1", "2", "3", "4", "5", "6", "7", "8", "9"}

DigitVal(c) ==
  CASE c = "0" -> 0 [] c = "1" -> 1 [] c = "2" -> 2 [] c = "3" -> 3 [] c = "4" -> 4
    [] c = "5" -> 5 [] c = "6" -> 6 [] c = "7" -> 7 [] c = "8" -> 8 [] c = "9" -> 9

RECURSIVE atolDigits(_, _, _)
atolDigits(str, i, acc) ==
  IF i > Len(str) \/ str[i] \notin DigitChars THEN acc
  ELSE atolDigits(str, i + 1, acc * 10 + DigitVal(str[i]))

RECURSIVE skipBlanks(_, _)
skipBlanks(str, i) ==
  IF i <= Len(str) /\ str[i] = " " THEN skipBlanks(str, i + 1) ELSE i

toInt(str) ==
  LET i == skipBlanks(str, 1)
      signed == i <= Len(str) /\ str[i] \in {"-", "+"}
      digits == atolDigits(str, IF signed THEN i + 1 ELSE i, 0)
  IN  IF signed /\ str[i] = "-" THEN 0 - digits ELSE digits

\* mutant of RemainingSeconds: the elapsed time is added, not subtracted
RemainingSecondsAdds(s) ==
  { Word((ToLong(Budget(s)) + ToLong(Elapsed(s))) \div MsPerSecond) }

(***************************************************************************)
(* Remaining time.                                                          *)
(*   long remainingMs = (long)(currentTimeout * 60000UL) - (long)elapsed;   *)
(*   if (remainingMs < 0) remainingMs = 0;                                  *)
(*   remainingSeconds = (unsigned long)(remainingMs / 1000);                *)
(* The subtraction of two longs overflows when the difference exceeds      *)
(* LONG_MAX, which is undefined: the build either wraps and clamps the     *)
(* negative result to 0, or drops the clamp and converts the wrapped       *)
(* quotient.  The operator yields the set of possible results (words).     *)
(***************************************************************************)
RemainingSeconds(s) ==
  LET a == ToLong(Budget(s))
      b == ToLong(Elapsed(s))
      overflow == b < 0 /\ b + LONG_MAX < a
      diff == a - b
      wrapped == ((a - (b + LONG_MAX + 1)) - LONG_MAX) - 1
  IN  IF ~overflow
      THEN { Word((IF diff < 0 THEN 0 ELSE diff) \div MsPerSecond) }
      ELSE { Word(0), FromLong(CDiv(wrapped, MsPerSecond)) }

\* calculateRemainingSeconds() of the optimized variant
calculateRemainingSeconds(s) ==
  IF ~s.timeoutActive THEN { Word(0) } ELSE RemainingSeconds(s)

\* mutant of buildStatusJsonMain: the countdown ignores the lamp state
buildStatusJsonMainIgnoresLamp(s) ==
  LET secs == IF s.timeoutActive THEN RemainingSeconds(s) ELSE { Word(0) }
  IN  { [on |-> isLampOn(s), timeoutActive |-> s.timeoutActive,
         remainingSeconds |-> r] : r \in secs }

\* buildStatusJson(): the set of JSON objects the call can produce
buildStatusJsonMain(s) ==
  LET on == isLampOn(s)
      secs == IF s.timeoutActive /\ on THEN RemainingSeconds(s) ELSE { Word(0) }
  IN  { [on |-> on, timeoutActive |-> s.timeoutActive, remainingSeconds |-> r] :
        r \in secs }

buildStatusJsonOpt(s) ==
  LET on == isLampOn(s)
      secs == IF s.timeoutActive /\ on THEN calculateRemainingSeconds(s)
                                       ELSE { Word(0) }
  IN  { [on |-> on, timeoutActive |-> s.timeoutActive, remainingSeconds |-> r] :
        r \in secs }

buildStatusJson(v, s) ==
  IF v = "main" THEN buildStatusJsonMain(s) ELSE buildStatusJsonOpt(s)

(***************************************************************************)
(* handleRoot(): the countdown embedded in the control page.               *)
(***************************************************************************)
\* HH:MM:SS of a number of seconds
TimeDisplay(totalSec) ==
  <<WDiv(totalSec, 3600), WMod(totalSec, 3600) \div 60, WMod(totalSec, 60)>>

Page(s, totalSec, text) ==
  [ code |-> 200, type |-> "text/html", cacheControl |-> "no-store, no-cache",
    on |-> isLampOn(s), cdShown |-> s.timeoutActive,
    dataRemaining |-> totalSec, cdText |-> text ]

\* main variant: unsigned remainingMs, clamped when its long reading is negative
handleRootMain(s) ==
  LET remainingMs == WSub(Budget(s), Elapsed(s))
      clamped == IF ToLong(remainingMs) < 0 THEN Word(0) ELSE remainingMs
      totalSec == WDiv(clamped, MsPerSecond)
  IN  IF s.timeoutActive
      THEN { Page(s, totalSec, TimeDisplay(totalSec)) }
      ELSE { Page(s, Word(0), TimeDisplay(Word(0))) }

\* optimized variant: calculateRemainingSeconds(), text only when positive
handleRootOpt(s) ==
  { Page(s, totalSec,
         IF s.timeoutActive /\ totalSec # Word(0) THEN TimeDisplay(totalSec)
                                                 ELSE TimeDisplay(Word(0))) :
    totalSec \in calculateRemainingSeconds(s) }

(***************************************************************************)
(* Mutating handlers, as functions of the program state.                   *)
(***************************************************************************)
\* mutant of handleOnMain: the route toggles the lamp
handleOnMainToggles(s) ==
  [setLamp(s, ~isLampOn(s)) EXCEPT !.relayState = ~isLampOn(s)]

handleOnMain(s) == [setLamp(s, TRUE) EXCEPT !.relayState = TRUE]

\* mutant of handleOnApiMain: the API route also cancels the timer
handleOnApiMainCancels(s) ==
  [setLamp(s, TRUE) EXCEPT !.relayState = TRUE, !.timeoutActive = FALSE]

handleOnApiMain(s) == [setLamp(s, TRUE) EXCEPT !.relayState = TRUE]

\* mutant of handleOffMain: the timer is left running
handleOffMainKeepsTimer(s) == [setLamp(s, FALSE) EXCEPT !.relayState = FALSE]

handleOffMain(s) ==
  [setLamp(s, FALSE) EXCEPT !.relayState = FALSE, !.timeoutActive = FALSE,
                            !.currentTimeout = 0]

\* mutant of handleOffApiMain: the duration is cleared, the timer stays active
handleOffApiMainKeepsActive(s) ==
  [setLamp(s, FALSE) EXCEPT !.relayState = FALSE, !.currentTimeout = 0]

handleOffApiMain(s) ==
  [setLamp(s, FALSE) EXCEPT !.relayState = FALSE, !.timeoutActive = FALSE,
                            !.currentTimeout = 0]

\* mutant of setLampWithState: turning on restarts a running timer
setLampWithStateRestarts(s, state) ==
  LET s1 == [setLamp(s, state) EXCEPT !.relayState = state]
  IN  IF ~state THEN [s1 EXCEPT !.timeoutActive = FALSE, !.currentTimeout = 0]
      ELSE [s1 EXCEPT !.timeoutStart = s.millis]

\* optimized variant: every on/off route goes through setLampWithState
setLampWithState(s, state) ==
  LET s1 == [setLamp(s, state) EXCEPT !.relayState = state]
  IN  IF ~state THEN [s1 EXCEPT !.timeoutActive = FALSE, !.currentTimeout = 0]
      ELSE s1

\* mutant of ClampMinutes: no upper clamp
ClampMinutesNoUpper(n) == IF n < 0 THEN 0 ELSE n

\* the clamp of the parsed argument into 0..720
ClampMinutes(n) ==
  LET m == IF n < 0 THEN 0 ELSE n
  IN  IF m > MaxMinutes THEN MaxMinutes ELSE m

\* mutant of handleTimeout: the lamp is not switched on for the timer
handleTimeoutNoLampOn(s, req) ==
  IF ~req.hasArg THEN s
  ELSE LET minutes == ClampMinutes(toInt(req.minutes))
       IN  IF minutes > 0 /\ minutes <= MaxMinutes
           THEN [s EXCEPT !.currentTimeout = minutes, !.timeoutActive = TRUE,
                          !.timeoutStart = s.millis]
           ELSE [s EXCEPT !.timeoutActive = FALSE, !.currentTimeout = 0]

\* mutant of handleTimeout: disabling the timer also switches the lamp off
handleTimeoutZeroTurnsOff(s, req) ==
  IF ~req.hasArg THEN s
  ELSE LET minutes == ClampMinutes(toInt(req.minutes))
       IN  IF minutes > 0 /\ minutes <= MaxMinutes
           THEN LET s1 == IF ~isLampOn(s)
                          THEN [setLamp(s, TRUE) EXCEPT !.relayState = TRUE]
                          ELSE s
                IN  [s1 EXCEPT !.currentTimeout = minutes, !.timeoutActive = TRUE,
                               !.timeoutStart = s.millis]
           ELSE [setLamp(s, FALSE) EXCEPT !.relayState = FALSE,
                                          !.timeoutActive = FALSE,
                                          !.currentTimeout = 0]

\* mutant of handleTimeout: a running timer keeps its start
handleTimeoutExtends(s, req) ==
  IF ~req.hasArg THEN s
  ELSE LET minutes == ClampMinutes(toInt(req.minutes))
       IN  IF minutes > 0 /\ minutes <= MaxMinutes
           THEN LET s1 == IF ~isLampOn(s)
                          THEN [setLamp(s, TRUE) EXCEPT !.relayState = TRUE]
                          ELSE s
                IN  [s1 EXCEPT !.currentTimeout = minutes, !.timeoutActive = TRUE,
                               !.timeoutStart = IF s.timeoutActive
                                                THEN s.timeoutStart
                                                ELSE s.millis]
           ELSE [s EXCEPT !.timeoutActive = FALSE, !.currentTimeout = 0]

\* handleTimeout(), the same statements in both variants
handleTimeout(s, req) ==
  IF ~req.hasArg THEN s
  ELSE LET minutes == ClampMinutes(toInt(req.minutes))
       IN  IF minutes > 0 /\ minutes <= MaxMinutes
           THEN LET s1 == IF ~isLampOn(s)
                          THEN [setLamp(s, TRUE) EXCEPT !.relayState = TRUE]
                          ELSE s
                IN  [s1 EXCEPT !.currentTimeout = minutes, !.timeoutActive = TRUE,
                               !.timeoutStart = s.millis]
           ELSE [s EXCEPT !.timeoutActive = FALSE, !.currentTimeout = 0]

handleTimeoutMain(s, req) == handleTimeout(s, req)

handleTimeoutOpt(s, req) == handleTimeout(s, req)

Redirect == [code |-> 302, type |-> "text/plain", cacheControl |-> "no-store",
             location |-> "/"]

Json(j) == [code |-> 200, type |-> "application/json",
            cacheControl |-> "no-store, no-cache", json |-> j]

(***************************************************************************)
(* setup() and loop().                                                      *)
(***************************************************************************)
\* mutant of setup: the boot time is not recorded
setupNoStartTime(ev) ==
  [ millis |-> Word(BootMillis), relayPin |-> HIGH, relayState |-> FALSE,
    currentTimeout |-> 0, timeoutActive |-> FALSE, timeoutStart |-> Word(0),
    moduleStartTime |-> Word(0), lastSafetyCheck |-> Word(0), ev |-> ev ]

\* the state at the end of setup(): globals at their initial values, relay
\* driven HIGH (lamp off), moduleStartTime = millis()
setup(ev) ==
  [ millis |-> Word(BootMillis), relayPin |-> HIGH, relayState |-> FALSE,
    currentTimeout |-> 0, timeoutActive |-> FALSE, timeoutStart |-> Word(0),
    moduleStartTime |-> Word(BootMillis), lastSafetyCheck |-> Word(0), ev |-> ev ]

\* ESP.restart(): the device boots again and runs setup()
restart(s) == setup(s.ev \cup {"restart"})

\* mutant of expiryCheck: millis() is compared with the deadline
expiryCheckDeadline(s) ==
  IF s.timeoutActive /\ isLampOn(s)
     /\ WGe(s.millis, WAdd(s.timeoutStart, Budget(s)))
  THEN [setLamp(s, FALSE) EXCEPT !.relayState = FALSE, !.timeoutActive = FALSE,
                                 !.ev = @ \cup {"expiry"}]
  ELSE s

\* mutant of expiryCheck: the timer expires only at the exact instant
expiryCheckExactInstant(s) ==
  IF s.timeoutActive /\ isLampOn(s) /\ Elapsed(s) = Budget(s)
  THEN [setLamp(s, FALSE) EXCEPT !.relayState = FALSE, !.timeoutActive = FALSE,
                                 !.ev = @ \cup {"expiry"}]
  ELSE s

\* mutant of expiryCheck: the lamp is switched off, the timer stays active
expiryCheckKeepsActive(s) ==
  IF s.timeoutActive /\ isLampOn(s) /\ WGe(Elapsed(s), Budget(s))
  THEN [setLamp(s, FALSE) EXCEPT !.relayState = FALSE, !.ev = @ \cup {"expiry"}]
  ELSE s

\* mutant of expiryCheck: strict comparison, the boundary instant is missed
expiryCheckStrict(s) ==
  IF s.timeoutActive /\ isLampOn(s) /\ Elapsed(s) # Budget(s)
                     /\ WGe(Elapsed(s), Budget(s))
  THEN [setLamp(s, FALSE) EXCEPT !.relayState = FALSE, !.timeoutActive = FALSE,
                                 !.ev = @ \cup {"expiry"}]
  ELSE s

\* step 1 of loop(): timer expiry, on the value of millis() the loop reads
expiryCheck(s) ==
  IF s.timeoutActive /\ isLampOn(s) /\ WGe(Elapsed(s), Budget(s))
  THEN [setLamp(s, FALSE) EXCEPT !.relayState = FALSE, !.timeoutActive = FALSE,
                                 !.ev = @ \cup {"expiry"}]
  ELSE s

\* mutant of overrideCheck: a timer found with the lamp off is left running
overrideCheckSkipped(s) == s

\* mutant of overrideCheck: the timer is cancelled whatever the lamp state
overrideCheckAnyLamp(s) ==
  IF s.timeoutActive
  THEN [s EXCEPT !.timeoutActive = FALSE, !.ev = @ \cup {"override"}]
  ELSE s

\* mutant of overrideCheck: the lamp is switched back on for the running timer
overrideCheckRelights(s) ==
  IF s.timeoutActive /\ ~isLampOn(s)
  THEN [setLamp(s, TRUE) EXCEPT !.relayState = TRUE, !.ev = @ \cup {"override"}]
  ELSE s

\* step 2 of loop(): the lamp was found off while the timer was active
overrideCheck(s) ==
  IF s.timeoutActive /\ ~isLampOn(s)
  THEN [s EXCEPT !.timeoutActive = FALSE, !.ev = @ \cup {"override"}]
  ELSE s

\* mutant of loopMain: the safety check uses the lamp state read at the top
\* of loop()
loopMainStaleLamp(s, skew) ==
  LET s2 == overrideCheck(expiryCheck([s EXCEPT !.ev = {"loop"}]))
      s3 == [s2 EXCEPT !.millis = WAdd(@, skew)]
  IN  IF ~isLampOn(s) /\ WGe(WSub(s3.millis, s3.moduleStartTime),
                             SAFETY_REBOOT_INTERVAL)
      THEN restart(s3)
      ELSE s3

\* mutant of loopMain: the safety check runs ahead of the timer steps
loopMainRebootsFirst(s, skew) ==
  LET s1 == [s EXCEPT !.ev = {"loop"}]
      s2 == overrideCheck(expiryCheck(s1))
      s3 == [s2 EXCEPT !.millis = WAdd(@, skew)]
  IN  IF ~isLampOn(s1) /\ WGe(WSub(s1.millis, s1.moduleStartTime),
                              SAFETY_REBOOT_INTERVAL)
      THEN restart(s1)
      ELSE IF ~isLampOn(s3) /\ WGe(WSub(s3.millis, s3.moduleStartTime),
                                   SAFETY_REBOOT_INTERVAL)
           THEN restart(s3)
           ELSE s3

\* mutant of loopMain: the safety reboot does not look at the lamp
loopMainRebootsLampOn(s, skew) ==
  LET s2 == overrideCheck(expiryCheck([s EXCEPT !.ev = {"loop"}]))
      s3 == [s2 EXCEPT !.millis = WAdd(@, skew)]
  IN  IF WGe(WSub(s3.millis, s3.moduleStartTime), SAFETY_REBOOT_INTERVAL)
      THEN restart(s3)
      ELSE s3

\* mutant of loopOpt: the safety check runs in every tick
loopOptEveryTick(s, skew) ==
  LET currentMillis == s.millis
      s2 == overrideCheck(expiryCheck([s EXCEPT !.ev = {"loop"}]))
      s3 == [s2 EXCEPT !.lastSafetyCheck = currentMillis]
  IN  IF ~isLampOn(s3)
         /\ WGe(WSub(currentMillis, s3.moduleStartTime), SAFETY_REBOOT_INTERVAL)
      THEN restart(s3)
      ELSE [s3 EXCEPT !.millis = WAdd(@, skew)]

\* mutant of loopOpt: the safety check uses the lamp state read before the
\* expiry step
loopOptStaleLamp(s, skew) ==
  LET currentMillis == s.millis
      s2 == overrideCheck(expiryCheck([s EXCEPT !.ev = {"loop"}]))
      due == WGe(WSub(currentMillis, s.lastSafetyCheck), SAFETY_CHECK_INTERVAL)
      s3 == IF due THEN [s2 EXCEPT !.lastSafetyCheck = currentMillis] ELSE s2
  IN  IF due /\ ~isLampOn(s)
             /\ WGe(WSub(currentMillis, s3.moduleStartTime), SAFETY_REBOOT_INTERVAL)
      THEN restart(s3)
      ELSE [s3 EXCEPT !.millis = WAdd(@, skew)]

\* the checks of loop() after handleClient(), main variant; millis() is read
\* for the expiry check and again, skew later, for the safety check
loopMain(s, skew) ==
  LET s2 == overrideCheck(expiryCheck([s EXCEPT !.ev = {"loop"}]))
      s3 == [s2 EXCEPT !.millis = WAdd(@, skew)]
  IN  IF ~isLampOn(s3) /\ WGe(WSub(s3.millis, s3.moduleStartTime),
                              SAFETY_REBOOT_INTERVAL)
      THEN restart(s3)
      ELSE s3

\* the checks of loop(), optimized variant; currentMillis is read once, and
\* the safety check runs when 30 minutes have passed since lastSafetyCheck
loopOpt(s, skew) ==
  LET currentMillis == s.millis
      s2 == overrideCheck(expiryCheck([s EXCEPT !.ev = {"loop"}]))
      due == WGe(WSub(currentMillis, s.lastSafetyCheck), SAFETY_CHECK_INTERVAL)
      s3 == IF due THEN [s2 EXCEPT !.lastSafetyCheck = currentMillis] ELSE s2
  IN  IF due /\ ~isLampOn(s3)
             /\ WGe(WSub(currentMillis, s3.moduleStartTime), SAFETY_REBOOT_INTERVAL)
      THEN restart(s3)
      ELSE [s3 EXCEPT !.millis = WAdd(@, skew)]

(***************************************************************************)
(* The state machine.  One iteration of loop() is a handleClient step      *)
(* (one request served, or none pending) followed by the checks.           *)
(***************************************************************************)
handleOn(v, s) == IF v = "main" THEN handleOnMain(s) ELSE setLampWithState(s, TRUE)

handleOnApi(v, s) ==
  IF v = "main" THEN handleOnApiMain(s) ELSE setLampWithState(s, TRUE)

handleOff(v, s) == IF v = "main" THEN handleOffMain(s) ELSE setLampWithState(s, FALSE)

handleOffApi(v, s) ==
  IF v = "main" THEN handleOffApiMain(s) ELSE setLampWithState(s, FALSE)

handleTimeoutOf(v, s, req) ==
  IF v = "main" THEN handleTimeoutMain(s, req) ELSE handleTimeoutOpt(s, req)

handleRoot(v, s) == IF v = "main" THEN handleRootMain(s) ELSE handleRootOpt(s)

loop(v, s, skew) == IF v = "main" THEN loopMain(s, skew) ELSE loopOpt(s, skew)

Req(route) == [route |-> route, hasArg |-> FALSE, minutes |-> <<>>]

NoRequest == Req("none")

NoResponse == [code |-> 0]

\* the control script is not running
ScriptIdle == [pc |-> "idle"]

\* the device has booted: both variants are at the end of setup()
Booted ==
  /\ millis = [v \in Variants |-> setup({}).millis]
  /\ relayPin = [v \in Variants |-> setup({}).relayPin]
  /\ relayState = [v \in Variants |-> setup({}).relayState]
  /\ currentTimeout = [v \in Variants |-> setup({}).currentTimeout]
  /\ timeoutActive = [v \in Variants |-> setup({}).timeoutActive]
  /\ timeoutStart = [v \in Variants |-> setup({}).timeoutStart]
  /\ moduleStartTime = [v \in Variants |-> setup({}).moduleStartTime]
  /\ lastSafetyCheck = [v \in Variants |-> setup({}).lastSafetyCheck]
  /\ events = [v \in Variants |-> {}]
  /\ pc = "handleClient"
  /\ request = NoRequest
  /\ response = [v \in Variants |-> NoResponse]
  /\ advances = 0

Init == Booted /\ script = ScriptIdle

\* mutant of Served: the checks of loop() are skipped after a request
ServedSkipsChecks(req, f) ==
  /\ pc = "handleClient"
  /\ Apply(f)
  /\ request' = req
  /\ pc' = "handleClient"
  /\ UNCHANGED <<advances, script>>

\* a handler that changes state and answers with a redirect
Served(req, f) ==
  /\ pc = "handleClient"
  /\ Apply(f)
  /\ request' = req
  /\ pc' = "checks"
  /\ UNCHANGED <<advances, script>>

\* handleClient() with no client pending
NoClient ==
  /\ Served(NoRequest, [v \in Variants |-> St(v)])
  /\ response' = [v \in Variants |-> NoResponse]

HandleOn ==
  /\ Served(Req("/on"), [v \in Variants |-> handleOn(v, St(v))])
  /\ response' = [v \in Variants |-> Redirect]

HandleOff ==
  /\ Served(Req("/off"), [v \in Variants |-> handleOff(v, St(v))])
  /\ response' = [v \in Variants |-> Redirect]

HandleTimeout ==
  \E req \in {Req("/timeout")} \cup
             {[route |-> "/timeout", hasArg |-> TRUE, minutes |-> m] : m \in MinutesArgs} :
    /\ Served(req, [v \in Variants |-> handleTimeoutOf(v, St(v), req)])
    /\ response' = [v \in Variants |-> Redirect]

HandleStatus ==
  /\ Served(Req("/status"), [v \in Variants |-> St(v)])
  /\ \E j \in [Variants -> UNION {buildStatusJson(v, St(v)) : v \in Variants}] :
       /\ \A v \in Variants : j[v] \in buildStatusJson(v, St(v))
       /\ response' = [v \in Variants |-> Json(j[v])]

HandleOnApi ==
  /\ Served(Req("/api/on"), [v \in Variants |-> handleOnApi(v, St(v))])
  /\ \E j \in [Variants -> UNION {buildStatusJson(v, handleOnApi(v, St(v))) : v \in Variants}] :
       /\ \A v \in Variants : j[v] \in buildStatusJson(v, handleOnApi(v, St(v)))
       /\ response' = [v \in Variants |-> Json(j[v])]

HandleOffApi ==
  /\ Served(Req("/api/off"), [v \in Variants |-> handleOffApi(v, St(v))])
  /\ \E j \in [Variants -> UNION {buildStatusJson(v, handleOffApi(v, St(v))) : v \in Variants}] :
       /\ \A v \in Variants : j[v] \in buildStatusJson(v, handleOffApi(v, St(v)))
       /\ response' = [v \in Variants |-> Json(j[v])]

\* mutant of HandleRoot: rendering the page settles a timer whose lamp is off
HandleRootSettlesTimer ==
  /\ Served(Req("/"), [v \in Variants |-> overrideCheck(St(v))])
  /\ \E pg \in [Variants -> UNION {handleRoot(v, St(v)) : v \in Variants}] :
       /\ \A v \in Variants : pg[v] \in handleRoot(v, St(v))
       /\ response' = [v \in Variants |-> pg[v]]

HandleRoot ==
  /\ Served(Req("/"), [v \in Variants |-> St(v)])
  /\ \E pg \in [Variants -> UNION {handleRoot(v, St(v)) : v \in Variants}] :
       /\ \A v \in Variants : pg[v] \in handleRoot(v, St(v))
       /\ response' = [v \in Variants |-> pg[v]]

\* the checks of loop(); skew is the time that passes between its clock reads
LoopChecks ==
  \E skew \in {Word(0)} \cup (IF advances < MaxAdvances THEN {Word(1)} ELSE {}) :
    /\ pc = "checks"
    /\ Apply([v \in Variants |-> loop(v, St(v), skew)])
    /\ pc' = "handleClient"
    /\ request' = NoRequest
    /\ response' = [v \in Variants |-> NoResponse]
    /\ advances' = IF skew = Word(0) THEN advances ELSE advances + 1
    /\ UNCHANGED script

\* time passes
AdvanceBy(steps) ==
  \E d \in steps :
    /\ advances < MaxAdvances
    /\ Apply([v \in Variants |-> [St(v) EXCEPT !.millis = WAdd(@, d)]])
    /\ advances' = advances + 1
    /\ request' = NoRequest
    /\ response' = [v \in Variants |-> NoResponse]
    /\ UNCHANGED <<pc, script>>

Advance == AdvanceBy(ClockSteps)

\* something outside the firmware drives the relay line
ExternalRelay ==
  \E level \in {LOW, HIGH} :
    /\ \E v \in Variants : relayPin[v] # level
    /\ Apply([v \in Variants |-> [St(v) EXCEPT !.relayPin = level]])
    /\ request' = NoRequest
    /\ response' = [v \in Variants |-> NoResponse]
    /\ UNCHANGED <<pc, advances, script>>

Next ==
  \/ NoClient
  \/ HandleRoot
  \/ HandleOn
  \/ HandleOff
  \/ HandleTimeout
  \/ HandleStatus
  \/ HandleOnApi
  \/ HandleOffApi
  \/ LoopChecks
  \/ Advance
  \/ ExternalRelay

Spec == Init /\ [][Next]_vars

(***************************************************************************)
(* Properties.                                                              *)
(***************************************************************************)
\* a step that runs the checks of loop()
Tick == pc = "checks" /\ pc' = "handleClient"

\* a step that serves a request
Handled == pc = "handleClient" /\ pc' = "checks"

\* what /status would answer in the current state
StatusOf(v) == buildStatusJson(v, St(v))

StatusJson(on, active, secs) ==
  [on |-> on, timeoutActive |-> active, remainingSeconds |-> Word(secs)]

\* elapsed time of the timer and its budget, in the current state
ElapsedNow(v) == WSub(millis[v], timeoutStart[v])

BudgetNow(v) == Word(currentTimeout[v] * 60000)

\* C1: a tick that finds the timer active, the lamp on and elapsed >= duration
\* turns the lamp off and marks the timer inactive, and status is then
\* {on:false, timeoutActive:false, remainingSeconds:0}; in both variants.
C1_ExpiryStep ==
  [][\A v \in Variants :
       (Tick /\ timeoutActive[v] /\ relayPin[v] = LOW
             /\ WGe(ElapsedNow(v), BudgetNow(v)))
       => /\ relayPin'[v] = HIGH
          /\ ~timeoutActive'[v]
          /\ StatusOf(v)' = {StatusJson(FALSE, FALSE, 0)}]_vars

\* a tick has just expired a one-minute timer at exactly 60000 ms
C1_Witness ==
  \A v \in Variants :
    /\ "expiry" \in events[v]
    /\ currentTimeout[v] = 1
    /\ ElapsedNow(v) = Word(60000)
    /\ relayPin[v] = HIGH /\ ~timeoutActive[v]

\* C2: a tick turns the lamp from on to off only when the timer was active and
\* elapsed >= duration; any relay write of a tick is the expiry step's, so the
\* override-cancel and safety-reboot steps write nothing.
C2_OnlyExpiryTurnsOff ==
  [][\A v \in Variants :
       Tick =>
         /\ (relayPin[v] = LOW /\ relayPin'[v] = HIGH)
              => (timeoutActive[v] /\ WGe(ElapsedNow(v), BudgetNow(v)))
         /\ "setLamp" \in events'[v] => "expiry" \in events'[v]
         /\ "expiry" \in events'[v]
              => (timeoutActive[v] /\ relayPin[v] = LOW
                    /\ WGe(ElapsedNow(v), BudgetNow(v)))]_vars

\* a tick has run 1 ms before a one-minute timer is due and left the lamp on
C2_Witness ==
  \A v \in Variants :
    /\ events[v] = {"loop"}
    /\ timeoutActive[v] /\ relayPin[v] = LOW
    /\ currentTimeout[v] = 1
    /\ ElapsedNow(v) = Word(59999)

\* C3: after /off or /api/off the lamp is off and the timer inactive, whatever
\* the state before; status then reports timeoutActive=false, remainingSeconds=0.
C3_TurnOff ==
  \A v \in Variants :
    request.route \in {"/off", "/api/off"}
    => /\ relayPin[v] = HIGH
       /\ ~timeoutActive[v]
       /\ StatusOf(v) = {StatusJson(FALSE, FALSE, 0)}

\* /off has been served after a timer had been started and time had passed
C3_Witness ==
  \A v \in Variants :
    /\ request.route = "/off"
    /\ "setLamp" \in events[v]
    /\ timeoutStart[v] # Word(0)
    /\ ElapsedNow(v) = Word(59999)
    /\ ~timeoutActive[v] /\ relayPin[v] = HIGH

\* C4: /on and /api/on set the lamp on and leave timeoutActive, currentTimeout
\* and timeoutStart as they were.
C4_TurnOnKeepsTimer ==
  [][\A v \in Variants :
       (Handled /\ request'.route \in {"/on", "/api/on"})
       => /\ relayPin'[v] = LOW
          /\ timeoutActive'[v] = timeoutActive[v]
          /\ currentTimeout'[v] = currentTimeout[v]
          /\ timeoutStart'[v] = timeoutStart[v]]_vars

\* /on has been served while a timer was running, 1 ms after its start
C4_Witness ==
  \A v \in Variants :
    /\ request.route = "/on"
    /\ timeoutActive[v] /\ relayPin[v] = LOW
    /\ currentTimeout[v] = 720
    /\ ElapsedNow(v) = Word(1)

\* the value of the minutes argument of the request just served
RequestedMinutes == toInt(request.minutes)

\* C5: after /timeout?minutes=N with 1 <= N <= 720 the timer is active with
\* duration N and start = the current clock, the lamp is on, and status at the
\* same clock reading is {on:true, timeoutActive:true, remainingSeconds:N*60}.
C5_StartTimer ==
  \A v \in Variants :
    (request.route = "/timeout" /\ request.hasArg
       /\ RequestedMinutes >= 1 /\ RequestedMinutes <= 720)
    => /\ timeoutActive[v]
       /\ currentTimeout[v] = RequestedMinutes
       /\ timeoutStart[v] = millis[v]
       /\ relayPin[v] = LOW
       /\ StatusOf(v) = {StatusJson(TRUE, TRUE, RequestedMinutes * 60)}

\* /timeout?minutes=30 has been served with the lamp off: the lamp was switched
\* on and 1800 seconds remain
C5_Witness ==
  \A v \in Variants :
    /\ request.route = "/timeout" /\ request.minutes = <<"3", "0">>
    /\ "setLamp" \in events[v]
    /\ StatusOf(v) = {StatusJson(TRUE, TRUE, 1800)}

\* C6: for an active timer (lamp on) and every clock value at or past
\* timeoutStart + currentTimeout*60000, the timer counts as expired and status
\* reports remainingSeconds = 0 (where the signed subtraction overflows, in at
\* least one of the results the build can produce).
C6_SaturatesAtZero ==
  \A v \in Variants :
    (timeoutActive[v] /\ relayPin[v] = LOW /\ WGe(ElapsedNow(v), BudgetNow(v)))
    => \E j \in StatusOf(v) : j.remainingSeconds = Word(0)

\* further amounts of time between two status queries
StatusSteps == ClockSteps \cup {Word(999), Word(1000)}

\* C7: for a fixed unexpired timer with the lamp on, a status query d ms after
\* another reports a remainingSeconds that is not larger.
C7_Monotonic ==
  \A v \in Variants : \A d \in StatusSteps :
    LET s1 == St(v)
        s2 == [s1 EXCEPT !.millis = WAdd(@, d)]
        e1 == ToLong(ElapsedNow(v))
        budget == currentTimeout[v] * 60000
    IN  (timeoutActive[v] /\ relayPin[v] = LOW /\ ToLong(d) >= 0
           /\ e1 >= 0 /\ e1 < budget /\ e1 + ToLong(d) < budget)
        => \A j1 \in buildStatusJson(v, s1) : \A j2 \in buildStatusJson(v, s2) :
             WGe(j1.remainingSeconds, j2.remainingSeconds)

\* /status has been served 1 ms after a one-minute timer was started and
\* answered 59 seconds, one less than at the start
C7_Witness ==
  \A v \in Variants :
    /\ request.route = "/status"
    /\ timeoutActive[v] /\ relayPin[v] = LOW /\ currentTimeout[v] = 1
    /\ ElapsedNow(v) = Word(1)
    /\ response[v].json = StatusJson(TRUE, TRUE, 59)

\* C8: status reports remainingSeconds = 0 whenever the timer is inactive or
\* the lamp is off, whatever currentTimeout and timeoutStart hold; a response
\* with a non-zero remainingSeconds has timeoutActive and on both true.
C8_ZeroUnlessActiveAndOn ==
  \A v \in Variants :
    /\ (~timeoutActive[v] \/ relayPin[v] # LOW)
         => \A j \in StatusOf(v) : j.remainingSeconds = Word(0)
    /\ (request.route \in {"/status", "/api/on", "/api/off"}
          /\ response[v].json.remainingSeconds # Word(0))
         => (response[v].json.timeoutActive /\ response[v].json.on
               /\ timeoutActive[v] /\ relayPin[v] = LOW)

\* /status has been served with a 720-minute timer still marked active, 1 ms
\* after its start, and the lamp found off
C8_Witness ==
  \A v \in Variants :
    /\ request.route = "/status"
    /\ timeoutActive[v] /\ relayPin[v] = HIGH
    /\ currentTimeout[v] = 720 /\ ElapsedNow(v) = Word(1)
    /\ response[v].json = StatusJson(FALSE, TRUE, 0)

\* C9: /timeout?minutes=0 leaves the timer inactive and the lamp as it was.
C9_ZeroCancels ==
  [][\A v \in Variants :
       (Handled /\ request'.route = "/timeout" /\ request'.hasArg
          /\ request'.minutes = <<"0">>)
       => /\ ~timeoutActive'[v]
          /\ relayPin'[v] = relayPin[v]
          /\ "setLamp" \notin events'[v]]_vars

\* /timeout?minutes=0 has been served with the lamp on, after a timer had been
\* started: the lamp is still on and the timer is inactive
C9_Witness ==
  \A v \in Variants :
    /\ request.route = "/timeout" /\ request.minutes = <<"0">>
    /\ relayPin[v] = LOW /\ ~timeoutActive[v]
    /\ timeoutStart[v] # Word(0) /\ ElapsedNow(v) = Word(1)

\* C10: a tick that finds the timer active and the lamp off marks the timer
\* inactive and writes nothing to the relay; the lamp stays off.
C10_OverrideCancel ==
  [][\A v \in Variants :
       (Tick /\ timeoutActive[v] /\ relayPin[v] = HIGH)
       => /\ ~timeoutActive'[v]
          /\ relayPin'[v] = HIGH
          /\ "override" \in events'[v]
          /\ "setLamp" \notin events'[v]]_vars

\* a tick has cancelled a timer whose lamp was found off
C10_Witness ==
  \A v \in Variants :
    /\ events[v] = {"loop", "override"}
    /\ ~timeoutActive[v] /\ relayPin[v] = HIGH
    /\ currentTimeout[v] = 30

(***************************************************************************)
(* Safety reboot.                                                           *)
(***************************************************************************)
\* the lamp as the safety check of the coming tick reads it: off already, or
\* switched off by the expiry step of that tick
LampOffAtSafetyCheck(v) ==
  \/ relayPin[v] = HIGH
  \/ timeoutActive[v] /\ WGe(ElapsedNow(v), BudgetNow(v))

\* clock - moduleStartTime, d ms from now
UptimeAfter(v, d) == WSub(WAdd(millis[v], d), moduleStartTime[v])

\* the time between the start of a tick and the clock read of its safety
\* check: the main variant reads millis() again, the optimized one does not
SafetyReadSkew(v) == IF v = "main" THEN {Word(0), Word(1)} ELSE {Word(0)}

\* C11: a restart is issued only by a tick whose safety check reads the lamp as
\* off, and only when clock - moduleStartTime, at the clock value that check
\* reads, is at least 12 hours (43200000 ms); in both variants.
C11_RebootOnlyIdle ==
  [][\A v \in Variants :
       "restart" \in events'[v]
       => /\ Tick
          /\ LampOffAtSafetyCheck(v)
          /\ \E d \in SafetyReadSkew(v) : WGe(UptimeAfter(v, d), Word(43200000))]_vars

\* a tick has expired a timer and then restarted the device, in both variants
C11_Witness ==
  \A v \in Variants :
    /\ {"expiry", "restart"} \subseteq events[v]
    /\ relayPin[v] = HIGH
    /\ moduleStartTime[v] = Word(BootMillis)

\* the coming tick is a point of the optimized variant's 30-minute sub-cadence
SafetyCheckDue(v) == WGe(WSub(millis[v], lastSafetyCheck[v]), Word(1800000))

\* C12: a tick whose safety check finds the lamp off with clock - moduleStartTime
\* at 12 hours or more restarts the device (in the optimized variant: when the
\* tick is a sub-cadence point); a tick whose safety check finds the lamp on
\* does not restart, however long the uptime, so the restart waits until the
\* lamp is off.
C12_RebootScenario ==
  [][\A v \in Variants :
       Tick =>
         /\ (/\ LampOffAtSafetyCheck(v)
             /\ WGe(UptimeAfter(v, Word(0)), Word(43200000))
             /\ v = "optimized" => SafetyCheckDue(v))
            => "restart" \in events'[v]
         /\ ~LampOffAtSafetyCheck(v) => "restart" \notin events'[v]]_vars

\* a tick has run with the lamp on and no timer, past 12 hours of uptime, and
\* has not restarted the device
C12_Witness ==
  \A v \in Variants :
    /\ events[v] = {"loop"}
    /\ relayPin[v] = LOW /\ ~timeoutActive[v]
    /\ WGe(UptimeAfter(v, Word(0)), Word(43200000))

(***************************************************************************)
(* The two variants side by side.                                           *)
(***************************************************************************)
\* both variants have seen the same clock, relay line and boot time so far
SameReadings ==
  /\ millis["main"] = millis["optimized"]
  /\ relayPin["main"] = relayPin["optimized"]
  /\ moduleStartTime["main"] = moduleStartTime["optimized"]

\* the step read one clock value only: a variant that kept running has the
\* clock it started the step with
OneClockReading == \E v \in Variants : millis'[v] = millis[v]

\* C13: a restart comes only from a tick that finds the lamp off with 12 hours
\* of uptime, and on the same clock readings, requests and relay changes the
\* two variants restart in the same tick or neither does.
C13_SameRebootTick ==
  [][(Tick /\ SameReadings /\ OneClockReading)
     => /\ "restart" \in events'["main"] <=> "restart" \in events'["optimized"]
        /\ \A v \in Variants :
             "restart" \in events'[v]
             => /\ LampOffAtSafetyCheck(v)
                /\ WGe(UptimeAfter(v, Word(0)), Word(43200000))]_vars

\* lamp state, timer fields and the /status answer agree between the variants
SameTimerState ==
  /\ relayPin["main"] = relayPin["optimized"]
  /\ timeoutActive["main"] = timeoutActive["optimized"]
  /\ currentTimeout["main"] = currentTimeout["optimized"]
  /\ timeoutStart["main"] = timeoutStart["optimized"]
  /\ StatusOf("main") = StatusOf("optimized")

\* C14: run side by side on the same requests, ticks, relay changes and clock
\* readings, the two variants have the same lamp state, timeoutActive,
\* currentTimeout and timeoutStart after every step and /status answers the
\* same in both: a step from agreeing states leads to agreeing states.
C14_SameStateMachine ==
  [][(SameReadings /\ SameTimerState /\ (Tick => OneClockReading))
     => SameTimerState']_vars

(***************************************************************************)
(* The minutes argument of /timeout.                                        *)
(***************************************************************************)
\* a malformed argument: no digit in it
NonNumeric(str) == \A i \in 1..Len(str) : str[i] \notin DigitChars

\* C15: a /timeout request whose minutes argument is missing or non-numeric
\* changes neither the lamp nor timeoutActive, currentTimeout or timeoutStart,
\* whether or not a timer was active.
C15_BadMinutesNoOp ==
  [][\A v \in Variants :
       (Handled /\ request'.route = "/timeout"
          /\ (~request'.hasArg \/ NonNumeric(request'.minutes)))
       => /\ relayPin'[v] = relayPin[v]
          /\ timeoutActive'[v] = timeoutActive[v]
          /\ currentTimeout'[v] = currentTimeout[v]
          /\ timeoutStart'[v] = timeoutStart[v]]_vars

TimeoutReq(str) == [route |-> "/timeout", hasArg |-> TRUE, minutes |-> str]

\* arguments below 0 and above 720
NegativeArgs ==
  { <<"-", "1">>, <<"-", "5">>, <<"-", "7", "2", "0">>,
    <<"-", "2", "1", "4", "7", "4", "8", "3", "6", "4", "7">> }

LargeArgs ==
  { <<"7", "2", "1">>, <<"9", "9", "9", "9", "9">>,
    <<"2", "1", "4", "7", "4", "8", "3", "6", "4", "7">> }

\* C16: in every state, /timeout with a negative minutes has exactly the effect
\* of minutes=0 and with minutes above 720 exactly the effect of minutes=720;
\* currentTimeout is always within 0..720.
C16_Clamped ==
  \A v \in Variants :
    /\ \A str \in NegativeArgs :
         /\ toInt(str) < 0
         /\ handleTimeoutOf(v, St(v), TimeoutReq(str))
              = handleTimeoutOf(v, St(v), TimeoutReq(<<"0">>))
    /\ \A str \in LargeArgs :
         /\ toInt(str) > 720
         /\ handleTimeoutOf(v, St(v), TimeoutReq(str))
              = handleTimeoutOf(v, St(v), TimeoutReq(<<"7", "2", "0">>))
    /\ currentTimeout[v] \in 0..720

\* /timeout?minutes=721 has been served with the lamp off and started a
\* 720-minute timer
C16_Witness ==
  \A v \in Variants :
    /\ request = TimeoutReq(<<"7", "2", "1">>)
    /\ "setLamp" \in events[v]
    /\ timeoutActive[v] /\ currentTimeout[v] = 720 /\ relayPin[v] = LOW

(***************************************************************************)
(* Timer state.                                                             *)
(***************************************************************************)
\* C17: in every reachable state an active timer has a duration within 1..720.
C17_ActiveHasDuration ==
  \A v \in Variants :
    timeoutActive[v] => (currentTimeout[v] > 0 /\ currentTimeout[v] <= 720)

\* a 720-minute timer is still marked active while the lamp has been switched
\* off from outside, 1 ms after the timer was started
C17_Witness ==
  \A v \in Variants :
    /\ timeoutActive[v] /\ currentTimeout[v] = 720
    /\ relayPin[v] = HIGH /\ events[v] = {}
    /\ ElapsedNow(v) = Word(1)

\* the timer is inactive with no duration, the lamp is off and the safety clock
\* starts at the current clock reading
FreshlyBooted(s) ==
  /\ ~s.timeoutActive /\ s.currentTimeout = 0
  /\ s.relayPin = HIGH
  /\ s.moduleStartTime = s.millis

\* C18: at the end of setup, on first boot and after every safety reboot, the
\* timer is inactive, the lamp is off and moduleStartTime is the clock reading
\* of that moment, so uptime counts from the reboot.
C18_BootState ==
  /\ FreshlyBooted(setup({}))
  /\ \A v \in Variants :
       "restart" \in events[v]
       => /\ FreshlyBooted(St(v))
          /\ UptimeAfter(v, Word(0)) = Word(0)

\* a tick has restarted both variants, with no timer expiring in it
C18_Witness ==
  \A v \in Variants :
    /\ events[v] = {"loop", "restart"}
    /\ millis[v] = Word(BootMillis)
    /\ FreshlyBooted(St(v))

(***************************************************************************)
(* Routes.                                                                  *)
(***************************************************************************)
\* C19: serving /status or / changes neither the lamp nor timeoutActive,
\* currentTimeout or timeoutStart, in every state.
C19_QueriesChangeNothing ==
  [][\A v \in Variants :
       (Handled /\ request'.route \in {"/status", "/"})
       => /\ relayPin'[v] = relayPin[v]
          /\ timeoutActive'[v] = timeoutActive[v]
          /\ currentTimeout'[v] = currentTimeout[v]
          /\ timeoutStart'[v] = timeoutStart[v]
          /\ events'[v] = {}]_vars

\* the page has been served while a one-minute timer was running and its lamp
\* off: the timer is still marked active
C19_Witness ==
  \A v \in Variants :
    /\ request.route = "/"
    /\ response[v].code = 200
    /\ timeoutActive[v] /\ relayPin[v] = HIGH /\ currentTimeout[v] = 1
    /\ ElapsedNow(v) = Word(59999)

\* C20: /api/on and /api/off change the state exactly as /on and /off do, and
\* answer 200 with the status JSON of the state after the change: /api/off with
\* {on:false, timeoutActive:false, remainingSeconds:0}, /api/on with on=true and
\* the timeoutActive and remainingSeconds that /status reports in that state.
C20_ApiRoutes ==
  \A v \in Variants :
    /\ handleOnApi(v, St(v)) = handleOn(v, St(v))
    /\ handleOffApi(v, St(v)) = handleOff(v, St(v))
    /\ request.route = "/api/off"
         => /\ response[v] = Json(StatusJson(FALSE, FALSE, 0))
            /\ relayPin[v] = HIGH /\ ~timeoutActive[v]
    /\ request.route = "/api/on"
         => /\ response[v].code = 200
            /\ response[v].json \in StatusOf(v)
            /\ response[v].json.on
            /\ response[v].json.timeoutActive = timeoutActive[v]
            /\ relayPin[v] = LOW

\* /api/on has been served 1 ms after a one-minute timer was started and
\* answered {on:true, timeoutActive:true, remainingSeconds:59}
C20_Witness ==
  \A v \in Variants :
    /\ request.route = "/api/on"
    /\ timeoutActive[v] /\ currentTimeout[v] = 1 /\ ElapsedNow(v) = Word(1)
    /\ response[v] = Json(StatusJson(TRUE, TRUE, 59))

(***************************************************************************)
(* The lamp state is read from the pin.                                     *)
(***************************************************************************)
\* a program state without the value of the legacy variable
ForgetRelayState(s) == [s EXCEPT !.relayState = FALSE]

\* C21: the on field of status equals the live relay level (LOW = on) in every
\* state, also right after an external change of the relay, and neither the
\* status, nor the checks of a tick, nor /timeout depend on relayState.
C21_LiveLampState ==
  \A v \in Variants :
    /\ \A j \in StatusOf(v) : j.on = (relayPin[v] = LOW)
    /\ request.route \in {"/status", "/api/on", "/api/off"}
         => response[v].json.on = (relayPin[v] = LOW)
    /\ \A b \in BOOLEAN :
         LET s == [St(v) EXCEPT !.relayState = b]
         IN  /\ buildStatusJson(v, s) = StatusOf(v)
             /\ \A skew \in {Word(0), Word(1)} :
                  ForgetRelayState(loop(v, s, skew))
                    = ForgetRelayState(loop(v, St(v), skew))
             /\ \A str \in MinutesArgs :
                  ForgetRelayState(handleTimeoutOf(v, s, TimeoutReq(str)))
                    = ForgetRelayState(handleTimeoutOf(v, St(v), TimeoutReq(str)))

\* /status has been served right after the relay was switched off from
\* outside: relayState still says on, the answer says off
C21_Witness ==
  \A v \in Variants :
    /\ request.route = "/status"
    /\ relayState[v] /\ relayPin[v] = HIGH
    /\ ~response[v].json.on

(***************************************************************************)
(* Order of the steps of loop().                                            *)
(***************************************************************************)
\* C22: a request is served as one step inside handleClient(), with none of
\* the checks of loop() in it, and the expiry, override and safety checks of
\* that iteration run after it as one step that serves no request; the
\* position in loop() moves from handleClient to the checks only by a
\* handleClient step and back only by the checks.
C22_HandlersAtomic ==
  [][/\ request'.route # "none"
          => /\ Handled
             /\ \A v \in Variants : events'[v] \subseteq {"setLamp"}
     /\ (\E v \in Variants : "loop" \in events'[v])
          => /\ Tick
             /\ request'.route = "none"
             /\ \A v \in Variants : "loop" \in events'[v]
     /\ pc' # pc
          => \/ Handled /\ \A v \in Variants : "loop" \notin events'[v]
             \/ Tick /\ \A v \in Variants : "loop" \in events'[v]]_vars

\* /on has been served when a one-minute timer had just become due: the
\* handler has run to completion and the expiry check is still to come
C22_Witness ==
  \A v \in Variants :
    /\ request.route = "/on" /\ pc = "checks"
    /\ timeoutActive[v] /\ relayPin[v] = LOW /\ currentTimeout[v] = 1
    /\ ElapsedNow(v) = Word(60000)

\* C23: the override check is evaluated on the state the expiry check leaves;
\* no tick takes both branches, and where the expiry branch is taken the timer
\* is already inactive, so the override check changes nothing.
C23_AtMostOneFires ==
  \A v \in Variants :
    /\ ~({"expiry", "override"} \subseteq events[v])
    /\ "expiry" \in events[v] => "setLamp" \in events[v]
    /\ LET s1 == expiryCheck(St(v))
       IN  "expiry" \in s1.ev
             => /\ ~s1.timeoutActive /\ ~isLampOn(s1)
                /\ overrideCheck(s1) = s1

\* a tick has expired a 30-minute timer and done nothing else
C23_Witness ==
  \A v \in Variants :
    /\ events[v] = {"loop", "expiry", "setLamp"}
    /\ currentTimeout[v] = 30
    /\ ~timeoutActive[v] /\ relayPin[v] = HIGH

\* C24: a tick that finds the lamp on and the timer inactive, or active and
\* not yet expired, changes neither the lamp nor timeoutActive, currentTimeout
\* or timeoutStart, takes no branch and does not restart, whatever the uptime.
C24_TickNoOp ==
  [][\A v \in Variants :
       (Tick /\ relayPin[v] = LOW
             /\ (~timeoutActive[v] \/ ~WGe(ElapsedNow(v), BudgetNow(v))))
       => /\ relayPin'[v] = relayPin[v]
          /\ timeoutActive'[v] = timeoutActive[v]
          /\ currentTimeout'[v] = currentTimeout[v]
          /\ timeoutStart'[v] = timeoutStart[v]
          /\ moduleStartTime'[v] = moduleStartTime[v]
          /\ events'[v] = {"loop"}]_vars

\* a tick has run with the lamp on, 1 ms before a 720-minute timer is due and
\* at 12 hours of uptime, and has left everything as it was
C24_Witness ==
  \A v \in Variants :
    /\ events[v] = {"loop"}
    /\ relayPin[v] = LOW /\ timeoutActive[v] /\ currentTimeout[v] = 720
    /\ ElapsedNow(v) = Word(43199999)
    /\ WGe(UptimeAfter(v, Word(0)), Word(43200000))

(***************************************************************************)
(* Idempotence.                                                             *)
(***************************************************************************)
\* lamp and timer state of a program state
TimerView(s) == <<s.relayPin, s.timeoutActive, s.currentTimeout, s.timeoutStart>>

\* a program state as the next step finds it
Fresh(s) == [s EXCEPT !.ev = {}]

\* C25: from every state, /on twice, /off twice, /api/on or /api/off twice,
\* /timeout with the same argument twice at one clock reading, and two ticks
\* at one clock reading leave the lamp and timer state that one leaves.
C25_Idempotent ==
  \A v \in Variants :
    LET s == St(v)
    IN  /\ TimerView(handleOn(v, Fresh(handleOn(v, s)))) = TimerView(handleOn(v, s))
        /\ TimerView(handleOff(v, Fresh(handleOff(v, s)))) = TimerView(handleOff(v, s))
        /\ TimerView(handleOnApi(v, Fresh(handleOnApi(v, s))))
             = TimerView(handleOnApi(v, s))
        /\ TimerView(handleOffApi(v, Fresh(handleOffApi(v, s))))
             = TimerView(handleOffApi(v, s))
        /\ \A req \in {Req("/timeout")} \cup {TimeoutReq(str) : str \in MinutesArgs} :
             TimerView(handleTimeoutOf(v, Fresh(handleTimeoutOf(v, s, req)), req))
               = TimerView(handleTimeoutOf(v, s, req))
        /\ TimerView(loop(v, Fresh(loop(v, s, Word(0))), Word(0)))
             = TimerView(loop(v, s, Word(0)))

\* /timeout?minutes=30 has been served with the lamp already on, a timer
\* running and the clock where that timer was started
C25_Witness ==
  \A v \in Variants :
    /\ request = TimeoutReq(<<"3", "0">>)
    /\ events[v] = {}
    /\ timeoutActive[v] /\ currentTimeout[v] = 30 /\ relayPin[v] = LOW
    /\ timeoutStart[v] = millis[v] /\ millis[v] = WAdd(Word(BootMillis), Word(1))

(***************************************************************************)
(* The control page.                                                        *)
(***************************************************************************)
\* C26: the countdown embedded in the page (data-remaining and the HH:MM:SS
\* text) is the remainingSeconds that /status reports in the same state at the
\* same clock reading, in every reachable state and both variants.
C26_PageMatchesStatus ==
  \A v \in Variants :
    request.route = "/"
    => \E j \in StatusOf(v) :
         /\ response[v].dataRemaining = j.remainingSeconds
         /\ response[v].cdText = TimeDisplay(j.remainingSeconds)

(***************************************************************************)
(* lamp_control.sh.  The script runs from its first line to the next read  *)
(* from the terminal or to its exit in one step; every read is a step of   *)
(* its own, with the line typed drawn from a small set (an empty line      *)
(* stands for end of input as well: read then leaves the variable empty).  *)
(* The device is left alone: the requests sent are collected in sent.      *)
(***************************************************************************)
\* number of lines the script reads from the terminal in one run
MaxReads == 3

\* the command-line arguments and the lines typed
ScriptIps == {"", "192.168.1.100"}

ScriptCommands == {"", "on", "off", "status", "timer", "blink"}

ScriptMinutes == { <<>>, <<"3", "0">>, <<"7", "2", "1">>, <<"a", "b", "c">> }

MenuChoices == {"", "0", "1", "2", "3", "4", "5", "6", "7", "8", "9", "x"}

fwvars == <<millis, relayPin, relayState, currentTimeout, timeoutActive, timeoutStart,
            moduleStartTime, lastSafetyCheck, pc, request, response, events, advances>>

\* the positions where the script waits for a line
ReadPcs == {"read_ip", "read_choice", "read_minutes", "press_enter"}

exitWith(sc, code) == [sc EXCEPT !.pc = "exited", !.exit = code]

\* a statement after a function call: it runs if the call has returned
thenExit(sc, code) == IF sc.pc \in ReadPcs THEN sc ELSE exitWith(sc, code)

\* curl -s -f "http://$LAMP_IP<path>"; ok tells whether it succeeded
curl(sc, path, minutes, ok) ==
  [sc EXCEPT !.sent = Append(@, [path |-> path, minutes |-> minutes]), !.ok = ok]

\* show_menu(): asks for the address if there is none, else prints the menu
\* and reads the choice
show_menu(sc) ==
  LET s1 == [sc EXCEPT !.menu = TRUE]
  IN  IF s1.LAMP_IP = "" THEN [s1 EXCEPT !.pc = "read_ip"]
                         ELSE [s1 EXCEPT !.pc = "read_choice"]

\* continue_menu(): $1 is the first argument of the function call
continue_menu(sc, arg1) ==
  IF arg1 = "" THEN [sc EXCEPT !.pc = "press_enter"] ELSE sc

turn_on(sc, ok) == continue_menu(curl(sc, "/on", <<>>, ok), "")

turn_off(sc, ok) == continue_menu(curl(sc, "/off", <<>>, ok), "")

\* get_status(): both branches end in continue_menu
get_status(sc, ok) == continue_menu(curl(sc, "/status", <<>>, ok), "")

\* set_timer(): anything but a string of digits becomes 0, more than 720
\* becomes 720
set_timer(sc, ok) ==
  LET t == sc.TIMER_MINUTES
      numeric == Len(t) > 0 /\ \A i \in 1..Len(t) : t[i] \in DigitChars
      t1 == IF ~numeric THEN <<"0">> ELSE t
      t2 == IF atolDigits(t1, 1, 0) > 720 THEN <<"7", "2", "0">> ELSE t1
  IN  continue_menu(curl([sc EXCEPT !.TIMER_MINUTES = t2], "/timeout", t2, ok), "")

\* the script is started with the arguments argv
ScriptInit ==
  /\ Booted
  /\ \E ip \in ScriptIps, command \in ScriptCommands, minutes \in ScriptMinutes,
        hasCurl \in BOOLEAN :
       script = [ pc |-> "start", hasCurl |-> hasCurl,
                  argv |-> [ip |-> ip, command |-> command, minutes |-> minutes],
                  LAMP_IP |-> ip, COMMAND |-> command, TIMER_MINUTES |-> minutes,
                  sent |-> <<>>, ok |-> TRUE, menu |-> FALSE, reads |-> 0,
                  exit |-> 0 ]

\* the curl test and the main script logic
ScriptStart ==
  /\ script.pc = "start"
  /\ \E ok \in BOOLEAN :
       script' =
         IF ~script.hasCurl THEN exitWith(script, 1)
         ELSE IF script.LAMP_IP = "" \/ script.COMMAND = ""
         THEN thenExit(show_menu(script), 0)
         ELSE CASE script.COMMAND = "on" -> thenExit(turn_on(script, ok), 0)
                [] script.COMMAND = "off" -> thenExit(turn_off(script, ok), 0)
                [] script.COMMAND = "status" -> thenExit(get_status(script, ok), 0)
                [] script.COMMAND = "timer" ->
                     IF script.TIMER_MINUTES = <<>> THEN exitWith(script, 1)
                     ELSE thenExit(set_timer(script, ok), 0)
                [] OTHER -> exitWith(script, 1)
  /\ UNCHANGED fwvars

\* a line is read at position p
ReadAt(p) == script.pc = p /\ script.reads < MaxReads

Reading == [script EXCEPT !.reads = @ + 1]

\* read -p "Enter lamp IP address: " LAMP_IP
ReadIp ==
  /\ ReadAt("read_ip")
  /\ \E line \in ScriptIps :
       script' = IF line = ""
                 THEN [Reading EXCEPT !.LAMP_IP = line, !.pc = "press_enter"]
                 ELSE [Reading EXCEPT !.LAMP_IP = line, !.pc = "read_choice"]
  /\ UNCHANGED fwvars

\* read -p "Press Enter to continue...", then show_menu
PressEnter ==
  /\ ReadAt("press_enter")
  /\ script' = show_menu(Reading)
  /\ UNCHANGED fwvars

\* read -p "Select option (0-9): " choice, and the case on it
ReadChoice ==
  /\ ReadAt("read_choice")
  /\ \E choice \in MenuChoices, ok \in BOOLEAN :
       script' =
         CASE choice = "1" -> turn_on(Reading, ok)
           [] choice = "2" -> turn_off(Reading, ok)
           [] choice = "3" -> get_status(Reading, ok)
           [] choice = "4" -> [Reading EXCEPT !.pc = "read_minutes"]
           [] choice = "5" -> set_timer([Reading EXCEPT !.TIMER_MINUTES = <<"5">>], ok)
           [] choice = "6" ->
                set_timer([Reading EXCEPT !.TIMER_MINUTES = <<"3", "0">>], ok)
           [] choice = "7" ->
                set_timer([Reading EXCEPT !.TIMER_MINUTES = <<"6", "0">>], ok)
           [] choice = "8" -> set_timer([Reading EXCEPT !.TIMER_MINUTES = <<"0">>], ok)
           [] choice = "9" -> show_menu([Reading EXCEPT !.LAMP_IP = ""])
           [] choice = "0" -> exitWith(Reading, 0)
           [] OTHER -> [Reading EXCEPT !.pc = "press_enter"]
  /\ UNCHANGED fwvars

\* set_timer_menu(): the minutes are read, an empty line counts as 0
ReadMinutes ==
  /\ ReadAt("read_minutes")
  /\ \E line \in ScriptMinutes, ok \in BOOLEAN :
       script' = set_timer([Reading EXCEPT
                              !.TIMER_MINUTES = IF line = <<>> THEN <<"0">> ELSE line],
                           ok)
  /\ UNCHANGED fwvars

ScriptNext ==
  \/ ScriptStart
  \/ ReadIp
  \/ PressEnter
  \/ ReadChoice
  \/ ReadMinutes

ScriptSpec == ScriptInit /\ [][ScriptNext]_vars

\* the script was started with an address and a command
CommandLineMode ==
  /\ script.pc \notin {"idle", "start"}
  /\ script.argv.ip # "" /\ script.argv.command # ""

\* the request path of a command, and the commands that have one
CommandPath(c) ==
  CASE c = "on" -> "/on" [] c = "off" -> "/off" [] c = "status" -> "/status"
    [] c = "timer" -> "/timeout" [] OTHER -> ""

RequestCommand ==
  \/ script.argv.command \in {"on", "off", "status"}
  \/ script.argv.command = "timer" /\ script.argv.minutes # <<>>

\* C27: started with an address and a command, the script sends the one
\* request of that command and exits, without showing the menu and without
\* reading from the terminal.
C27_CommandLineExits ==
  CommandLineMode
  => /\ script.pc = "exited"
     /\ ~script.menu /\ script.reads = 0
     /\ (script.hasCurl /\ RequestCommand)
          => /\ Len(script.sent) = 1
             /\ script.sent[1].path = CommandPath(script.argv.command)
             /\ script.exit = 0

(***************************************************************************)
(* Liveness.  loop() is called again and again and the clock keeps moving: *)
(* the clock advances at most once per iteration of loop(), by LiveStep,   *)
(* and without limit.  advances counts the clock steps since the last run  *)
(* of the checks.                                                           *)
(***************************************************************************)
\* the time that passes in one iteration of loop(), at most: 2^30 ms, a
\* quarter of the period of millis()
LiveStep == <<16384, 0>>

\* the checks of loop(), on one clock reading
LiveTick ==
  /\ pc = "checks"
  /\ Apply([v \in Variants |-> loop(v, St(v), Word(0))])
  /\ pc' = "handleClient"
  /\ request' = NoRequest
  /\ response' = [v \in Variants |-> NoResponse]
  /\ advances' = 0
  /\ UNCHANGED script

LiveAdvance ==
  /\ advances = 0
  /\ Apply([v \in Variants |-> [St(v) EXCEPT !.millis = WAdd(@, LiveStep)]])
  /\ advances' = 1
  /\ request' = NoRequest
  /\ response' = [v \in Variants |-> NoResponse]
  /\ UNCHANGED <<pc, script>>

\* server.handleClient(): no client, or one request served
HandleClientStep ==
  \/ NoClient
  \/ HandleRoot
  \/ HandleOn
  \/ HandleOff
  \/ HandleTimeout
  \/ HandleStatus
  \/ HandleOnApi
  \/ HandleOffApi

LiveNext ==
  \/ HandleClientStep
  \/ LiveTick
  \/ LiveAdvance
  \/ ExternalRelay

\* the clock moves on within the iteration
ClockMoves == advances = 0 /\ advances' = 1

\* Fairness: loop() never stops being called, so the checks are left (Tick)
\* and handleClient() returns (Handled) again and again, and the clock
\* never stands still.  Under LiveNext a Tick step is a LiveTick step, a
\* Handled step a HandleClientStep step, a ClockMoves step a LiveAdvance
\* step, and each is enabled exactly when that action is.
LiveSpec ==
  /\ Init
  /\ [][LiveNext]_vars
  /\ WF_pc(Tick)
  /\ WF_pc(Handled)
  /\ WF_advances(ClockMoves)

\* C28 as stated: an active timer always becomes inactive
C28_EveryTimerEnds ==
  \A v \in Variants: timeoutActive[v] ~> ~timeoutActive[v]

\* C28: with loop() run again and again and the clock advancing, an active
\* timer becomes inactive unless a /timeout request starts it afresh; while
\* no request is served the lamp is eventually off; and a tick with the
\* timer active and the lamp on switches the lamp off exactly when its
\* clock reading is at or past timeoutStart + currentTimeout * 60000
C28_TimerLiveness ==
  /\ \A v \in Variants:
       (timeoutActive[v] /\ request.route # "/timeout")
         ~> (~timeoutActive[v] \/ request.route = "/timeout")
  /\ \A v \in Variants:
       (timeoutActive[v] /\ request.route = "none")
         ~> (relayPin[v] = HIGH \/ request.route # "none")
  /\ [][\A v \in Variants:
          (Tick /\ timeoutActive[v] /\ isLampOn(St(v)))
            => /\ ("expiry" \in events'[v])
                    <=> WGe(ElapsedNow(v), BudgetNow(v))
               /\ ("expiry" \in events'[v])
                    => relayPin'[v] = HIGH /\ ~timeoutActive'[v]]_vars

\* a twelve-hour timer ran out at the first tick after the clock moved on
C28_Witness ==
  \A v \in Variants:
    /\ "expiry" \in events[v]
    /\ currentTimeout[v] = 720
    /\ millis[v] = WAdd(timeoutStart[v], LiveStep)
    /\ relayPin[v] = HIGH /\ ~timeoutActive[v]
    /\ advances = 0

(***************************************************************************)
(* The wrap of millis().  The device has been up, with the lamp on, for    *)
(* almost 2^32 ms: the clock reads WrapStart, 90 seconds before it wraps   *)
(* to 0, and then moves on in steps of 30 or 60 seconds.                   *)
(***************************************************************************)
\* 2^32 - 90000
WrapStart == <<65534, 41072>>

WrapSteps == {Word(30000), Word(60000)}

\* one variant at WrapStart: the lamp was switched on by /on and a tick has
\* just run the checks
NearWrap(v) ==
  [handleOn(v, setup({})) EXCEPT !.millis = WrapStart,
                                 !.lastSafetyCheck =
                                   IF v = "main" THEN @ ELSE WrapStart]

WrapInit ==
  /\ millis = [v \in Variants |-> NearWrap(v).millis]
  /\ relayPin = [v \in Variants |-> NearWrap(v).relayPin]
  /\ relayState = [v \in Variants |-> NearWrap(v).relayState]
  /\ currentTimeout = [v \in Variants |-> NearWrap(v).currentTimeout]
  /\ timeoutActive = [v \in Variants |-> NearWrap(v).timeoutActive]
  /\ timeoutStart = [v \in Variants |-> NearWrap(v).timeoutStart]
  /\ moduleStartTime = [v \in Variants |-> NearWrap(v).moduleStartTime]
  /\ lastSafetyCheck = [v \in Variants |-> NearWrap(v).lastSafetyCheck]
  /\ events = [v \in Variants |-> {}]
  /\ pc = "handleClient"
  /\ request = NoRequest
  /\ response = [v \in Variants |-> NoResponse]
  /\ advances = 0
  /\ script = ScriptIdle

WrapAdvance == AdvanceBy(WrapSteps)

WrapNext ==
  \/ HandleClientStep
  \/ LoopChecks
  \/ WrapAdvance
  \/ ExternalRelay

WrapSpec == WrapInit /\ [][WrapNext]_vars

\* the time, in ms, from the instant the counter wraps (negative before it)
\* to the instant the counter reads w
SinceWrap(w) == ToLong(w)

\* the time in ms since the timer was started
TrueElapsed(v) == SinceWrap(millis[v]) - SinceWrap(timeoutStart[v])

\* C29: a tick with the timer active and the lamp on expires the timer if
\* and only if the time that has really passed since the timer was started
\* is at least currentTimeout * 60000 ms, also when the counter has wrapped
\* in between
C29_ExpiryAcrossWrap ==
  [][\A v \in Variants:
       (Tick /\ timeoutActive[v] /\ isLampOn(St(v)))
         => /\ ("expiry" \in events'[v])
                 <=> TrueElapsed(v) >= currentTimeout[v] * MsPerMinute
            /\ ("expiry" \in events'[v])
                 => relayPin'[v] = HIGH /\ ~timeoutActive'[v]]_vars

\* a one-minute timer started 30 seconds before the wrap has expired 30
\* seconds after it
C29_Witness ==
  \A v \in Variants:
    /\ "expiry" \in events[v]
    /\ currentTimeout[v] = 1
    /\ timeoutStart[v] = WSub(Word(0), Word(30000))
    /\ millis[v] = Word(30000)
    /\ relayPin[v] = HIGH /\ ~timeoutActive[v]

\* the state of variant v, d ms later, after the expiry step of loop()
ExpiryAfter(v, d) == expiryCheck([St(v) EXCEPT !.millis = WAdd(@, Word(d))])

\* the timer and the status answer are those of a timer of n minutes
\* started at this instant
StartedNow(v, n) ==
  /\ timeoutActive[v]
  /\ currentTimeout[v] = n
  /\ timeoutStart[v] = millis[v]
  /\ relayPin[v] = LOW
  /\ StatusOf(v) = {StatusJson(TRUE, TRUE, n * 60)}
  /\ \A d \in {n * MsPerMinute - 1, n * MsPerMinute} :
       ("expiry" \in ExpiryAfter(v, d).ev) <=> d >= n * MsPerMinute

\* C30: /timeout?minutes=N with 1 <= N <= 720, served while a timer is
\* active, leaves duration N and start = the current clock, whatever the
\* previous duration and elapsed time: status then reports N*60 seconds and
\* the timer expires N minutes later, not before
C30_RestartReplaces ==
  [][\A v \in Variants : \A m \in MinutesArgs :
       (Handled /\ timeoutActive[v]
          /\ request'.route = "/timeout" /\ request'.hasArg
          /\ request'.minutes = m
          /\ toInt(m) >= 1 /\ toInt(m) <= 720)
       => /\ millis'[v] = millis[v]
          /\ StartedNow(v, toInt(m))']_vars

\* a twelve-hour timer has run for a minute less 1 ms with the lamp on, and
\* /timeout?minutes=1 now replaces it by a one-minute timer started afresh
C30_Witness ==
  \A v \in Variants :
    /\ timeoutActive[v] /\ currentTimeout[v] = 720 /\ relayPin[v] = LOW
    /\ ElapsedNow(v) = Word(MsPerMinute - 1)
    /\ ENABLED (/\ HandleTimeout
                /\ request'.minutes = <<"1">>
                /\ StartedNow(v, 1)')

\* an active timer has its lamp on
LampOnWhileActive(v) == timeoutActive[v] => relayPin[v] = LOW

\* C31: the device boots with no timer; no request and no tick leads from a
\* state where every active timer has its lamp on to one where an active
\* timer has its lamp off (only a change of the relay line from outside
\* does); and at the end of every tick an active timer has its lamp on
C31_ActiveImpliesOn ==
  /\ \A v \in Variants : LampOnWhileActive(v)
  /\ [][\A v \in Variants :
          /\ (~ExternalRelay /\ LampOnWhileActive(v)) => LampOnWhileActive(v)'
          /\ Tick => LampOnWhileActive(v)']_vars

\* a tick has found a 30-minute timer with the lamp switched off from
\* outside and has cancelled it
C31_Witness ==
  \A v \in Variants :
    /\ events[v] = {"loop", "override"}
    /\ currentTimeout[v] = 30
    /\ relayPin[v] = HIGH /\ ~timeoutActive[v]
    /\ millis[v] = timeoutStart[v]

\* the state in which the safety check of the coming tick runs: after the
\* expiry and override steps
AtSafetyCheck(v) == overrideCheck(expiryCheck(St(v)))

\* C32: in a tick that restarts the device the timer is inactive when the
\* safety check runs; a timer that was active when the tick began has been
\* ended by the expiry step or the override step of that tick
C32_RebootWithNoTimer ==
  [][\A v \in Variants :
       (Tick /\ "restart" \in events'[v])
       => /\ ~AtSafetyCheck(v).timeoutActive
          /\ ~isLampOn(AtSafetyCheck(v))
          /\ timeoutActive[v]
               => events'[v] \cap {"expiry", "override"} # {}]_vars

\* a tick has found a timer whose lamp was switched off from outside, has
\* cancelled it and has then restarted the device
C32_Witness ==
  \A v \in Variants :
    /\ events[v] = {"loop", "override", "restart"}
    /\ ~timeoutActive[v]
    /\ millis[v] = Word(BootMillis)

\* C33: in the main variant a tick that begins with the lamp on and the
\* timer overdue, at an uptime of 12 hours or more, switches the lamp off
\* and restarts the device in that same tick
C33_ExpiryThenReboot ==
  [][(/\ Tick
      /\ timeoutActive["main"] /\ relayPin["main"] = LOW
      /\ WGe(ElapsedNow("main"), BudgetNow("main"))
      /\ \A d \in SafetyReadSkew("main") :
           WGe(UptimeAfter("main", d), Word(43200000)))
     => /\ {"expiry", "setLamp", "restart"} \subseteq events'["main"]
        /\ relayPin'["main"] = HIGH /\ ~timeoutActive'["main"]
        /\ millis'["main"] = Word(BootMillis)
        /\ moduleStartTime'["main"] = Word(BootMillis)]_vars

\* a 720-minute timer started at boot is due, the lamp is on, and the tick
\* now to be run expires the timer and restarts the main variant
C33_Witness ==
  /\ timeoutActive["main"] /\ currentTimeout["main"] = 720
  /\ relayPin["main"] = LOW
  /\ timeoutStart["main"] = moduleStartTime["main"]
  /\ ElapsedNow("main") = Word(43200000)
  /\ ENABLED (/\ LoopChecks
              /\ {"expiry", "restart"} \subseteq events'["main"]
              /\ relayPin'["main"] = HIGH)

(***************************************************************************)
(* The 30-minute cadence of the optimized variant's safety check.  The     *)
(* device has been up with the lamp on for 12 hours and more; the safety   *)
(* check has just run, at CadenceStart, and found the lamp on.             *)
(***************************************************************************)
\* 45000000 ms: the 25th multiple of 30 minutes, the first past 12 hours
CadenceStart == <<686, 42304>>

CadenceSteps == {Word(1), WSub(SAFETY_CHECK_INTERVAL, Word(1)), SAFETY_CHECK_INTERVAL}

\* one variant at CadenceStart
AtCadencePoint(v) ==
  [handleOn(v, setup({})) EXCEPT !.millis = CadenceStart,
                                 !.lastSafetyCheck =
                                   IF v = "main" THEN @ ELSE CadenceStart]

CadenceInit ==
  /\ millis = [v \in Variants |-> AtCadencePoint(v).millis]
  /\ relayPin = [v \in Variants |-> AtCadencePoint(v).relayPin]
  /\ relayState = [v \in Variants |-> AtCadencePoint(v).relayState]
  /\ currentTimeout = [v \in Variants |-> AtCadencePoint(v).currentTimeout]
  /\ timeoutActive = [v \in Variants |-> AtCadencePoint(v).timeoutActive]
  /\ timeoutStart = [v \in Variants |-> AtCadencePoint(v).timeoutStart]
  /\ moduleStartTime = [v \in Variants |-> AtCadencePoint(v).moduleStartTime]
  /\ lastSafetyCheck = [v \in Variants |-> AtCadencePoint(v).lastSafetyCheck]
  /\ events = [v \in Variants |-> {}]
  /\ pc = "handleClient"
  /\ request = NoRequest
  /\ response = [v \in Variants |-> NoResponse]
  /\ advances = 0
  /\ script = ScriptIdle

CadenceAdvance == AdvanceBy(CadenceSteps)

CadenceNext ==
  \/ HandleClientStep
  \/ LoopChecks
  \/ CadenceAdvance
  \/ ExternalRelay

CadenceSpec == CadenceInit /\ [][CadenceNext]_vars

\* the optimized variant with its lamp off, d ms after its last evaluation
\* of the safety check, after the checks of loop()
LampOffTickAfter(d) ==
  loopOpt([St("optimized") EXCEPT !.relayPin = HIGH,
                                  !.millis = WAdd(lastSafetyCheck["optimized"], d)],
          Word(0))

\* C34: in the optimized variant a tick evaluates the safety-reboot
\* condition exactly when 30 minutes have passed since lastSafetyCheck,
\* which is 0 after boot; an evaluation with the lamp off at 12 hours of
\* uptime restarts, and the next evaluation is due 30 minutes after any
\* tick at the latest; an evaluation that finds the lamp on restarts
\* nothing, and no tick in the following 30 minutes does, lamp off or not
C34_SafetyCadence ==
  [][Tick =>
       LET v == "optimized" IN
       /\ "restart" \in events'[v] => SafetyCheckDue(v) /\ lastSafetyCheck'[v] = Word(0)
       /\ ~SafetyCheckDue(v) => lastSafetyCheck'[v] = lastSafetyCheck[v]
       /\ (SafetyCheckDue(v) /\ "restart" \notin events'[v])
            => lastSafetyCheck'[v] = millis[v]
       /\ (SafetyCheckDue(v) /\ LampOffAtSafetyCheck(v)
             /\ WGe(UptimeAfter(v, Word(0)), SAFETY_REBOOT_INTERVAL))
            => "restart" \in events'[v]
       /\ WGe(WSub(WAdd(millis'[v], SAFETY_CHECK_INTERVAL), lastSafetyCheck'[v]),
              SAFETY_CHECK_INTERVAL)
       /\ (SafetyCheckDue(v) /\ ~LampOffAtSafetyCheck(v))
            => /\ "restart" \notin events'[v]
               /\ \A d \in {Word(0), Word(1), WSub(SAFETY_CHECK_INTERVAL, Word(1))} :
                    "restart" \notin LampOffTickAfter(d)'.ev
               /\ WGe(UptimeAfter(v, Word(0)), SAFETY_REBOOT_INTERVAL)
                    => "restart" \in LampOffTickAfter(SAFETY_CHECK_INTERVAL)'.ev]_vars

\* the lamp was found on at the evaluation 30 minutes ago and has been off
\* since; the tick now to be run is the next evaluation and restarts the
\* optimized variant
C34_Witness ==
  /\ relayPin["optimized"] = HIGH /\ ~timeoutActive["optimized"]
  /\ lastSafetyCheck["optimized"] = CadenceStart
  /\ WSub(millis["optimized"], lastSafetyCheck["optimized"]) = SAFETY_CHECK_INTERVAL
  /\ events["optimized"] = {}
  /\ ENABLED (LoopChecks /\ "restart" \in events'["optimized"])

(***************************************************************************)
(* The uptime across the wrap of millis().  The device was switched on     *)
(* 2^32 - 93000 ms ago and has not restarted since: its lamp has been on   *)
(* at every safety check.  That first boot took a second longer than a    *)
(* boot after ESP.restart(), so moduleStartTime tells the two apart.       *)
(***************************************************************************)
FirstBootStart == Word(BootMillis + 1000)

\* one variant 90 seconds before the wrap; the optimized variant's safety
\* check last ran 30 minutes before the clock reading 30000
LongUp(v) ==
  [handleOn(v, setup({})) EXCEPT !.millis = WrapStart,
                                 !.moduleStartTime = FirstBootStart,
                                 !.lastSafetyCheck =
                                   IF v = "main" THEN @
                                   ELSE WSub(Word(30000), SAFETY_CHECK_INTERVAL)]

LongUpInit ==
  /\ millis = [v \in Variants |-> LongUp(v).millis]
  /\ relayPin = [v \in Variants |-> LongUp(v).relayPin]
  /\ relayState = [v \in Variants |-> LongUp(v).relayState]
  /\ currentTimeout = [v \in Variants |-> LongUp(v).currentTimeout]
  /\ timeoutActive = [v \in Variants |-> LongUp(v).timeoutActive]
  /\ timeoutStart = [v \in Variants |-> LongUp(v).timeoutStart]
  /\ moduleStartTime = [v \in Variants |-> LongUp(v).moduleStartTime]
  /\ lastSafetyCheck = [v \in Variants |-> LongUp(v).lastSafetyCheck]
  /\ events = [v \in Variants |-> {}]
  /\ pc = "handleClient"
  /\ request = NoRequest
  /\ response = [v \in Variants |-> NoResponse]
  /\ advances = 0
  /\ script = ScriptIdle

LongUpSpec == LongUpInit /\ [][WrapNext]_vars

\* the device has not restarted since it was switched on, 49 days ago
FirstBoot(v) == moduleStartTime[v] = FirstBootStart

\* C35: while the device is in its first boot (true time since boot far
\* beyond 12 hours), before and after the wrap of millis(), a tick whose
\* safety check runs and finds the lamp off restarts the device
C35_RebootAcrossWrap ==
  [][\A v \in Variants :
       (/\ Tick
        /\ FirstBoot(v)
        /\ LampOffAtSafetyCheck(v)
        /\ v = "optimized" => SafetyCheckDue(v))
       => "restart" \in events'[v]]_vars

(***************************************************************************)
(* lamp_control.bat, :get_status.  The response of /status is a line of    *)
(* characters; the script looks for substrings in it.                      *)
(***************************************************************************)
DigitChar(n) ==
  CASE n = 0 -> "0" [] n = 1 -> "1" [] n = 2 -> "2" [] n = 3 -> "3" [] n = 4 -> "4"
    [] n = 5 -> "5" [] n = 6 -> "6" [] n = 7 -> "7" [] n = 8 -> "8" [] n = 9 -> "9"

\* the decimal digits of value, most significant first; none for 0
RECURSIVE DecimalDigits(_)
DecimalDigits(value) ==
  IF value = Word(0) THEN <<>>
  ELSE DecimalDigits(WDiv(value, 10)) \o <<DigitChar(WMod(value, 10))>>

\* fastItoa(value, buffer); String(remainingSeconds) gives the same text
fastItoa(value) == IF value = Word(0) THEN <<"0">> ELSE DecimalDigits(value)

BoolText(b) == IF b THEN <<"t", "r", "u", "e">> ELSE <<"f", "a", "l", "s", "e">>

TimeoutActiveText == <<"t", "i", "m", "e", "o", "u", "t", "A", "c", "t", "i", "v", "e">>

\* the text buildStatusJson() returns for the JSON object j
JsonText(j) ==
  <<"{", "\"", "o", "n", "\"", ":">> \o BoolText(j.on)
  \o <<",", "\"">> \o TimeoutActiveText \o <<"\"", ":">> \o BoolText(j.timeoutActive)
  \o <<",", "\"", "r", "e", "m", "a", "i", "n", "i", "n", "g",
       "S", "e", "c", "o", "n", "d", "s", "\"", ":">>
  \o fastItoa(j.remainingSeconds) \o <<"}">>

\* the positions of line at which the text str begins
Occurrences(line, str) ==
  { i \in 1..(Len(line) - Len(str) + 1) : SubSeq(line, i, i + Len(str) - 1) = str }

\* findstr "str": the line contains str
findstr(line, str) == Occurrences(line, str) # {}

\* findstr "first.*second": first, any characters, then second
findstrDotStar(line, first, second) ==
  \E i \in Occurrences(line, first) :
    \E k \in Occurrences(line, second) : k >= i + Len(first)

\* :get_status, the two lines it prints about the lamp and the timer
bat_get_status(json_response) ==
  [ lamp |-> IF findstr(json_response, BoolText(TRUE))
             THEN "Lamp is currently ON" ELSE "Lamp is currently OFF",
    timer |-> IF findstrDotStar(json_response, TimeoutActiveText, BoolText(TRUE))
              THEN "Timer is active" ELSE "No timer active" ]

\* C36: for every status JSON the firmware returns to a /status request,
\* the batch script prints 'Lamp is currently ON' exactly when on is true
\* and 'Timer is active' exactly when timeoutActive is true
C36_BatReportAgrees ==
  \A v \in Variants :
    request.route = "/status"
    => LET j == response[v].json
           report == bat_get_status(JsonText(j))
       IN  /\ report.lamp = "Lamp is currently ON" <=> j.on
           /\ report.timer = "Timer is active" <=> j.timeoutActive

====
